---- MODULE Spec2Model ----
(***************************************************************************)
(* JSip-8: a CHIP-8 interpreter written in JavaScript (src/jsip-8.js).     *)
(*                                                                         *)
(* The model follows the class JSip8 field by field.  JavaScript values    *)
(* are modelled explicitly (undefined, NaN, numbers, the row array that    *)
(* clearScreen shares, strings made by +), because the interpreter's       *)
(* arrays start out as holes and its arithmetic is JavaScript's.           *)
(***************************************************************************)
EXTENDS Integers, Sequences, FiniteSets, TLC

(***************************************************************************)
(* JavaScript values, each a record with a tag:                            *)
(*   "undefined", "NaN"                                                    *)
(*   "number"  num/den, den a power of two, in lowest terms                *)
(*   "object"  the array allocated by the id-th call of clearScreen        *)
(*   "string"  str, its UTF-16 code units                                  *)
(***************************************************************************)
Undef == [tag |-> "undefined"]

NaN == [tag |-> "NaN"]

RECURSIVE Reduce(_, _)
Reduce(n, d) ==
  IF d > 1 /\ n % 2 = 0 THEN Reduce(n \div 2, d \div 2) ELSE <<n, d>>

Frac(n, d) ==
  LET r == Reduce(n, d)
  IN  [tag |-> "number", num |-> r[1], den |-> r[2]]

Num(n) == [tag |-> "number", num |-> n, den |-> 1]

Str(s) == [tag |-> "string", str |-> s]

\* The array object allocated by the id-th call of clearScreen.
Row(id) == [tag |-> "object", id |-> id]

IsNum(a) == a.tag = "number"

IsInt(a) == a.tag = "number" /\ a.den = 1

\* Code units: 44 is ",", 45 is "-", 46 is ".", 48..57 are "0".."9".
RECURSIVE Digits(_)
Digits(n) ==
  IF n < 10 THEN <<48 + n>>
  ELSE Append(Digits(n \div 10), 48 + (n % 10))

RECURSIVE FracDigits(_, _)
FracDigits(r, d) ==
  IF r = 0 THEN << >>
  ELSE <<48 + ((r * 10) \div d)>> \o FracDigits((r * 10) % d, d)

Abs(n) == IF n < 0 THEN -n ELSE n

\* Number.prototype.toString for the dyadic rationals of the model.
NumberToString(a) ==
  LET m == Abs(a.num)
      whole == Digits(m \div a.den)
      rest == m % a.den
  IN  (IF a.num < 0 THEN <<45>> ELSE << >>) \o whole \o
      (IF rest = 0 THEN << >> ELSE <<46>> \o FracDigits(rest, a.den))

RowLength == 31

\* Array.prototype.join of the row array: "0,0,...,0".
RowString ==
  [k \in 1..(2 * RowLength - 1) |-> IF k % 2 = 1 THEN 48 ELSE 44]

\* JSToString: "undefined" and "NaN" are spelled out in code units.
JSToString(a) ==
  CASE a.tag = "undefined" -> <<117, 110, 100, 101, 102, 105, 110, 101, 100>>
    [] a.tag = "NaN" -> <<78, 97, 78>>
    [] a.tag = "number" -> NumberToString(a)
    [] a.tag = "object" -> RowString
    [] OTHER -> a.str

\* ToPrimitive makes a string of an array; every such string holds a comma.
IsStringy(a) == a.tag \in {"object", "string"}

\* ToNumber: undefined, arrays of several elements and their strings give NaN.
ToNumber(a) == IF a.tag = "number" THEN a ELSE NaN

\* Truncation toward zero of a number.
Trunc(a) == IF a.num >= 0 THEN a.num \div a.den ELSE -((-a.num) \div a.den)

\* ToInt32: NaN, undefined, arrays and strings give 0.  The numbers of the
\* model stay inside the 32-bit range, where ToInt32 only truncates.
ToInt32(a) == IF a.tag = "number" THEN Trunc(a) ELSE 0

\* The binary operator +.
Add(a, b) ==
  IF IsStringy(a) \/ IsStringy(b) THEN Str(JSToString(a) \o JSToString(b))
  ELSE IF IsNum(a) /\ IsNum(b)
       THEN LET d == IF a.den > b.den THEN a.den ELSE b.den
            IN  Frac(a.num * (d \div a.den) + b.num * (d \div b.den), d)
       ELSE NaN

\* Unary minus inside -, and the binary operators - * /.
Neg(a) == IF IsNum(a) THEN Frac(-a.num, a.den) ELSE NaN

Sub(a, b) ==
  LET x == ToNumber(a)
      y == ToNumber(b)
  IN  IF IsNum(x) /\ IsNum(y) THEN Add(x, Neg(y)) ELSE NaN

Mul(a, k) == LET x == ToNumber(a) IN IF IsNum(x) THEN Frac(x.num * k, x.den) ELSE NaN

Half(a) == LET x == ToNumber(a) IN IF IsNum(x) THEN Frac(x.num, x.den * 2) ELSE NaN

RECURSIVE SeqLess(_, _)
SeqLess(s, t) ==
  IF t = << >> THEN FALSE
  ELSE IF s = << >> THEN TRUE
  ELSE IF Head(s) # Head(t) THEN Head(s) < Head(t)
  ELSE SeqLess(Tail(s), Tail(t))

\* a < b: by code units when both are strings, numerically otherwise.
Lt(a, b) ==
  IF IsStringy(a) /\ IsStringy(b) THEN SeqLess(JSToString(a), JSToString(b))
  ELSE LET x == ToNumber(a)
           y == ToNumber(b)
       IN  IsNum(x) /\ IsNum(y) /\ x.num * y.den < y.num * x.den

Gt(a, b) == Lt(b, a)

\* a === b
StrictEq(a, b) == a.tag # "NaN" /\ a = b

\* Bitwise operators on 32-bit integers (two's complement).
RECURSIVE AndNat(_, _)
AndNat(a, b) ==
  IF a = 0 \/ b = 0 THEN 0
  ELSE 2 * AndNat(a \div 2, b \div 2) + (IF a % 2 = 1 /\ b % 2 = 1 THEN 1 ELSE 0)

RECURSIVE OrNat(_, _)
OrNat(a, b) ==
  IF a = 0 THEN b
  ELSE IF b = 0 THEN a
  ELSE 2 * OrNat(a \div 2, b \div 2) + (IF a % 2 = 1 \/ b % 2 = 1 THEN 1 ELSE 0)

BitNot(a) == -a - 1

AndInt(a, b) ==
  CASE a >= 0 /\ b >= 0 -> AndNat(a, b)
    [] a >= 0 /\ b < 0 -> a - AndNat(a, BitNot(b))
    [] a < 0 /\ b >= 0 -> b - AndNat(b, BitNot(a))
    [] OTHER -> BitNot(OrNat(BitNot(a), BitNot(b)))

OrInt(a, b) == BitNot(AndInt(BitNot(a), BitNot(b)))

XorInt(a, b) == OrInt(a, b) - AndInt(a, b)

BitAnd(a, b) == Num(AndInt(ToInt32(a), ToInt32(b)))

BitOr(a, b) == Num(OrInt(ToInt32(a), ToInt32(b)))

BitXor(a, b) == Num(XorInt(ToInt32(a), ToInt32(b)))

\* a << 1 on 32 bits: 2t wrapped into -2^31 .. 2^31 - 1.
ShiftLeft1(a) ==
  LET t == ToInt32(a)
      p30 == 1073741824
  IN  Num(IF t >= p30 THEN 2 * ((t - p30) - p30)
          ELSE IF t < -p30 THEN 2 * ((t + p30) + p30)
          ELSE 2 * t)

(***************************************************************************)
(* Arrays.  memory is new Array(4096) (all holes) after reset and the      *)
(* program itself, a Uint8Array, after load: length and the bytes held.    *)
(* screen is an array made by fill: its first `filled` elements are `fill` *)
(* except for the properties written since, kept in `over` by key.         *)
(***************************************************************************)
MemorySize == 4096

StackSize == 16

SCREEN_WIDTH == 63

SCREEN_HEIGHT == 31

EmptyMap == [k \in {} |-> Undef]

\* new Array(n)
NewArray(n) == [length |-> n, bytes |-> << >>]

\* A Uint8Array holding the bytes of program.
Uint8Array(program) == [length |-> Len(program), bytes |-> program]

\* this.memory[key]
MemoryAt(memory, key) ==
  IF IsInt(key) /\ key.num >= 0 /\ key.num < Len(memory.bytes)
  THEN Num(memory.bytes[key.num + 1])
  ELSE Undef

\* new Array(n).fill(value)
Filled(n, value) == [filled |-> n, fill |-> value, over |-> EmptyMap]

\* this.screen[key]
ScreenAt(scr, key) ==
  IF key \in DOMAIN scr.over THEN scr.over[key]
  ELSE IF IsInt(key) /\ key.num >= 0 /\ key.num < scr.filled THEN scr.fill
  ELSE Undef

\* this.screen[key] = value (an element equal to the fill is not kept apart).
ScreenPut(scr, key, value) ==
  IF IsInt(key) /\ key.num >= 0 /\ key.num < scr.filled /\ value = scr.fill
  THEN [scr EXCEPT !.over = [k \in DOMAIN scr.over \ {key} |-> scr.over[k]]]
  ELSE [scr EXCEPT !.over = [k \in DOMAIN scr.over \cup {key} |->
                               IF k = key THEN value ELSE scr.over[k]]]

\* this.stack[k]: element k of the array, undefined outside it.
StackAt(stack, k) == IF k >= 0 /\ k < Len(stack) THEN stack[k + 1] ELSE Undef

(***************************************************************************)
(* The JSip8 object.  allocs counts the arrays clearScreen has allocated,  *)
(* which gives each its identity.                                          *)
(***************************************************************************)
reset(m) ==
  [memory |-> NewArray(MemorySize),
   stack |-> [k \in 1..StackSize |-> Undef],
   pc |-> Num(0),
   sp |-> 0,
   v |-> [k \in 0..15 |-> Undef],
   i |-> 0,
   delayTimer |-> 0,
   soundTimer |-> 0,
   screen |-> Filled(SCREEN_WIDTH * SCREEN_HEIGHT, Num(0)),
   allocs |-> m.allocs]

\* The object before the constructor's reset has set its fields.
Blank == [allocs |-> 0]

drawPixelX(x) ==
  IF Gt(x, Num(SCREEN_WIDTH)) THEN Sub(x, Num(SCREEN_WIDTH))
  ELSE IF Lt(x, Num(0)) THEN Add(x, Num(SCREEN_WIDTH))
  ELSE x

drawPixelY(y) ==
  IF Gt(y, Num(SCREEN_HEIGHT)) THEN Sub(y, Num(SCREEN_HEIGHT))
  ELSE IF Lt(y, Num(0)) THEN Add(y, Num(SCREEN_HEIGHT))
  ELSE y

\* const location = x + y * SCREEN_WIDTH, after the two adjustments.
Location(x, y) == Add(drawPixelX(x), Mul(drawPixelY(y), SCREEN_WIDTH))

\* this.screen[location] ^= 1; return hadAlreadyAPixel
Toggle(scr, location, hadAlreadyAPixel) ==
  [screen |-> ScreenPut(scr, location, BitXor(hadAlreadyAPixel, Num(1))),
   ret |-> hadAlreadyAPixel]

ToggleAt(scr, location) == Toggle(scr, location, ScreenAt(scr, location))

\* drawPixel(x, y): the screen after it and the value it returns.
drawPixel(scr, x, y) == ToggleAt(scr, Location(x, y))

clearScreen(m) ==
  [m EXCEPT !.screen = Filled(SCREEN_WIDTH, Row(m.allocs + 1)),
            !.allocs = m.allocs + 1]

\* A delay timer that is decremented at 0 too.
executeDelayTimerPastZero(m) == [m EXCEPT !.delayTimer = m.delayTimer - 1]

executeDelayTimer(m) ==
  IF m.delayTimer > 0 THEN [m EXCEPT !.delayTimer = m.delayTimer - 1] ELSE m

executeSoundTimer(m) ==
  IF m.soundTimer > 0 THEN [m EXCEPT !.soundTimer = m.soundTimer - 1] ELSE m

(***************************************************************************)
(* executeOpcode, one operator per case of its switch.  Hexadecimal        *)
(* literals of the source are written in decimal: 0xf000 = 61440,          *)
(* 0x0fff = 4095, 0x00ff = 255, 0x000f = 15, 0x80 = 128.                   *)
(***************************************************************************)
\* const opcode = (byte1 << 8) | byte2
Opcode(byte1, byte2) == OrInt(ToInt32(byte1) * 256, ToInt32(byte2))

\* (opcode >> 8) & 0x000f, (opcode >> 4) & 0x000f
NibbleX(opcode) == AndInt(opcode \div 256, 15)

NibbleY(opcode) == AndInt(opcode \div 16, 15)

SetV(m, k, value) == [m EXCEPT !.v[k] = value]

\* 00EE: this.pc = this.stack[this.sp]; this.sp--
Ret(m) == [m EXCEPT !.pc = StackAt(m.stack, m.sp), !.sp = m.sp - 1]

\* A case 0x0000 that clears the screen for every word but 00EE.
Op0Clearing(m, opcode) == IF opcode = 238 THEN Ret(m) ELSE clearScreen(m)

\* case 0x0000: the inner switch has cases 0x00e0 and 0x0ee only.
Op0(m, opcode) ==
  CASE opcode = 224 -> clearScreen(m)
    [] opcode = 238 -> Ret(m)
    [] OTHER -> m

\* 1nnn
Jp(m, opcode) == [m EXCEPT !.pc = Num(AndInt(opcode, 4095))]

\* 2nnn: this.sp++; this.stack.push(this.pc); this.pc = opcode & 0x0fff
Call(m, opcode) ==
  [m EXCEPT !.sp = m.sp + 1,
            !.stack = Append(m.stack, m.pc),
            !.pc = Num(AndInt(opcode, 4095))]

\* A 3xkk that compares the index x with kk.
SeByteIndex(m, opcode) ==
  IF NibbleX(opcode) = AndInt(opcode, 255)
  THEN [m EXCEPT !.pc = Add(m.pc, Num(2))]
  ELSE m

\* 3xkk
SeByte(m, opcode) ==
  IF StrictEq(m.v[NibbleX(opcode)], Num(AndInt(opcode, 255)))
  THEN [m EXCEPT !.pc = Add(m.pc, Num(2))]
  ELSE m

\* 4xkk
SneByte(m, opcode) ==
  IF ~StrictEq(m.v[NibbleX(opcode)], Num(AndInt(opcode, 255)))
  THEN [m EXCEPT !.pc = Add(m.pc, Num(2))]
  ELSE m

\* 5xy0
SeReg(m, opcode) ==
  IF StrictEq(m.v[NibbleX(opcode)], m.v[NibbleY(opcode)])
  THEN [m EXCEPT !.pc = Add(m.pc, Num(2))]
  ELSE m

\* A 6xkk that stores into the register after the one it names.
LdByteNext(m, opcode) ==
  SetV(m, (NibbleX(opcode) + 1) % 16, Num(AndInt(opcode, 255)))

\* 6xkk
LdByte(m, opcode) == SetV(m, NibbleX(opcode), Num(AndInt(opcode, 255)))

\* 7xkk: this.v[vx] = vx + kk, vx being the index
AddByte(m, opcode) ==
  LET vx == NibbleX(opcode)
      kk == AndInt(opcode, 255)
  IN  SetV(m, vx, Num(vx + kk))

\* 8xy0 .. 8xy3
LdReg(m, x, y) == SetV(m, x, m.v[y])

OrReg(m, x, y) == SetV(m, x, BitOr(m.v[x], m.v[y]))

AndReg(m, x, y) == SetV(m, x, BitAnd(m.v[x], m.v[y]))

XorReg(m, x, y) == SetV(m, x, BitXor(m.v[x], m.v[y]))

\* 8xy4: the test adds the indices x and y
AddReg(m, x, y) ==
  IF x + y > 255
  THEN LET m1 == SetV(m, 15, Num(1))
       IN  SetV(m1, x, BitAnd(Add(m1.v[x], m1.v[y]), Num(255)))
  ELSE LET m1 == SetV(m, 15, Num(0))
       IN  SetV(m1, x, Add(m1.v[x], m1.v[y]))

\* if (this.v[x] < 0) this.v[x] += 256
WrapNegative(m, x) ==
  IF Lt(m.v[x], Num(0)) THEN SetV(m, x, Add(m.v[x], Num(256))) ELSE m

\* 8xy5
SubReg(m, x, y) ==
  LET m1 == SetV(m, 15, IF Gt(m.v[x], m.v[y]) THEN Num(1) ELSE Num(0))
      m2 == SetV(m1, x, Sub(m1.v[x], m1.v[y]))
  IN  WrapNegative(m2, x)

\* 8xy6
Shr(m, x) ==
  LET leastSignificantBit == BitAnd(m.v[x], Num(1))
      m1 == SetV(m, 15, IF StrictEq(leastSignificantBit, Num(1)) THEN Num(1) ELSE Num(0))
  IN  SetV(m1, x, Half(m1.v[x]))

\* 8xy7
SubnReg(m, x, y) ==
  LET m1 == SetV(m, 15, IF Gt(m.v[y], m.v[x]) THEN Num(1) ELSE Num(0))
      m2 == SetV(m1, x, Sub(m1.v[y], m1.v[x]))
  IN  WrapNegative(m2, x)

\* 8xyE
Shl(m, x) ==
  LET m1 == SetV(m, 15, BitAnd(m.v[x], Num(128)))
  IN  SetV(m1, x, ShiftLeft1(m1.v[x]))

\* case 0x8000
Op8(m, opcode) ==
  LET lastByte == AndInt(opcode, 15)
      x == NibbleX(opcode)
      y == NibbleY(opcode)
  IN  CASE lastByte = 0 -> LdReg(m, x, y)
        [] lastByte = 1 -> OrReg(m, x, y)
        [] lastByte = 2 -> AndReg(m, x, y)
        [] lastByte = 3 -> XorReg(m, x, y)
        [] lastByte = 4 -> AddReg(m, x, y)
        [] lastByte = 5 -> SubReg(m, x, y)
        [] lastByte = 6 -> Shr(m, x)
        [] lastByte = 7 -> SubnReg(m, x, y)
        [] lastByte = 14 -> Shl(m, x)
        [] OTHER -> m

\* Annn
LdI(m, opcode) == [m EXCEPT !.i = AndInt(opcode, 4095)]

\* Bnnn
JpV0(m, opcode) == [m EXCEPT !.pc = Add(Num(AndInt(opcode, 4095)), m.v[0])]

\* sprite after x executions of sprite <<= 1
RECURSIVE ShiftedSprite(_, _)
ShiftedSprite(sprite, x) ==
  IF x = 0 THEN sprite ELSE ShiftLeft1(ShiftedSprite(sprite, x - 1))

\* Dxyn: the two loops from step k = 8 * y + x on; x and y are the loop
\* variables, which also index this.v.
RECURSIVE DrwFrom(_, _, _)
DrwFrom(m, n, k) ==
  IF k >= 8 * n THEN m
  ELSE LET y == k \div 8
           x == k % 8
           sprite == ShiftedSprite(MemoryAt(m.memory, Num(m.i + y)), x)
       IN  IF Gt(BitAnd(sprite, Num(128)), Num(0))
           THEN LET d == drawPixel(m.screen, Add(m.v[x], Num(x)), Add(m.v[y], Num(y)))
                IN  DrwFrom([m EXCEPT !.screen = d.screen, !.v[15] = d.ret], n, k + 1)
           ELSE DrwFrom(m, n, k + 1)

Drw(m, opcode) == DrwFrom(m, AndInt(opcode, 15), 0)

\* 9xy0 and Cxkk read x and y, which are declared in the block of case
\* 0x8000 only: evaluating this.v[x] throws a ReferenceError.
Throws(opcode) == AndInt(opcode, 61440) \in {36864, 49152}

\* switch (opcode & 0xf000)
Dispatch(m, opcode, group) ==
  [thrown |-> Throws(opcode),
   m |-> CASE group = 0 -> Op0(m, opcode)
           [] group = 4096 -> Jp(m, opcode)
           [] group = 8192 -> Call(m, opcode)
           [] group = 12288 -> SeByte(m, opcode)
           [] group = 16384 -> SneByte(m, opcode)
           [] group = 20480 -> SeReg(m, opcode)
           [] group = 24576 -> LdByte(m, opcode)
           [] group = 28672 -> AddByte(m, opcode)
           [] group = 32768 -> Op8(m, opcode)
           [] group = 40960 -> LdI(m, opcode)
           [] group = 45056 -> JpV0(m, opcode)
           [] group = 53248 -> Drw(m, opcode)
           [] OTHER -> m]

Decode(m, opcode) == Dispatch(m, opcode, AndInt(opcode, 61440))

\* executeOpcode(byte1, byte2): the object after it, and whether it threw.
executeOpcode(m, byte1, byte2) == Decode(m, Opcode(byte1, byte2))

(***************************************************************************)
(* The state.                                                              *)
(*   jsip8      the fields of the JSip8 object                             *)
(*   elapsed    new Date().getTime() - this.lastCommandRun, in ms          *)
(*   scheduled  the run callbacks pending with requestAnimationFrame       *)
(*   last       the handler that ran last: its name, the program it was    *)
(*              given, whether it called the timers (ticked) and           *)
(*              executeOpcode (cycled)                                     *)
(*   hist       the latest calls of executeOpcode, newest first, each with *)
(*              the object as it was when the call began                   *)
(***************************************************************************)
VARIABLES jsip8, elapsed, scheduled, last, hist

vars == <<jsip8, elapsed, scheduled, last, hist>>

\* now - this.lastCommandRun > 1000
Interval == 1000

\* Bounds of the model.
MaxPc == 24

MaxCalls == 18

MaxClears == 2

MaxLoops == 1

\* Programs handed to load.  Hexadecimal in the comments.
CallRetProgram == <<32, 0, 0, 238>>          \* 2000 00EE

CallLoopProgram == <<0, 0, 32, 0>>           \* 0000 2000

KeyWaitProgram == <<240, 10>>                \* F00A

SneRegProgram == <<144, 0>>                  \* 9000

\* 6A40 6BC0 6000 6100 A001 D001 A003 D001 D001
DrawTwiceProgram ==
  <<106, 64, 107, 192, 96, 0, 97, 0, 160, 1, 208, 1, 160, 3, 208, 1, 208, 1>>

\* 603C 6100 6AFF A005 D011
DrawWrapProgram == <<96, 60, 97, 0, 106, 255, 160, 5, 208, 17>>

\* 6A80 6000 A001 00E0 D001
ClearDrawProgram == <<106, 128, 96, 0, 160, 1, 0, 224, 208, 1>>

\* 6xkk for every register and three immediates.
LdPrograms == {<<96 + x, kk>> : x \in 0..15, kk \in {0, 5, 255}}

AddRegProgram == <<96, 200, 97, 100, 128, 20>>       \* 60C8 6164 8014

JpProgram == <<16, 4>>                                \* 1004

JpV0Program == <<96, 2, 176, 4>>                      \* 6002 B004

AddByteProgram == <<96, 5, 112, 3>>                   \* 6005 7003

SubRegProgram == <<111, 3, 96, 10, 128, 245>>         \* 6F03 600A 80F5

SubnRegProgram == <<111, 3, 96, 10, 128, 247>>        \* 6F03 600A 80F7

ShrProgram == <<96, 5, 128, 6>>                       \* 6005 8006

ShlProgram == <<96, 129, 128, 14>>                    \* 6081 800E

SeRegProgram == <<96, 5, 97, 5, 80, 16>>              \* 6005 6105 5010

SeRegOtherProgram == <<96, 5, 97, 6, 80, 16>>         \* 6005 6106 5010

SneRegBytesProgram == <<96, 5, 97, 6, 144, 16>>       \* 6005 6106 9010

RetProgram == <<0, 238>>                              \* 00EE

\* 8xy8 .. 8xyD and 8xyF for x, y in {0, F}, and 0nnn other than 00E0, 00EE.
UnknownPrograms ==
  {<<128 + x, 16 * y + b>> : x \in {0, 15}, y \in {0, 15}, b \in (8..13) \cup {15}}
    \cup {<<0, 0>>, <<0, 1>>, <<0, 225>>, <<15, 255>>}

RndProgram == <<192, 255>>                            \* C0FF

SpriteEdgeProgram == <<175, 255, 208, 2>>             \* AFFF D002

AluPrograms ==
  {AddRegProgram, JpProgram, JpV0Program, AddByteProgram, SubRegProgram,
   SubnRegProgram, ShrProgram, ShlProgram, SeRegProgram, SeRegOtherProgram,
   SneRegBytesProgram, RetProgram, RndProgram, SpriteEdgeProgram}

Programs ==
  {CallRetProgram, CallLoopProgram, KeyWaitProgram, SneRegProgram,
   DrawTwiceProgram, DrawWrapProgram, ClearDrawProgram}
    \cup LdPrograms \cup AluPrograms \cup UnknownPrograms

\* this.pc += 2, which a throw of executeOpcode skips.  m1 is the object after
\* the two timer calls (ticked); entry is what hist records of the call of
\* executeOpcode (cycled).
Advance(m1, opcode, r) ==
  [m |-> IF r.thrown THEN r.m ELSE [r.m EXCEPT !.pc = Add(r.m.pc, Num(2))],
   ticked |-> TRUE,
   cycled |-> TRUE,
   thrown |-> r.thrown,
   entry |-> <<[call |-> "executeOpcode", opcode |-> opcode, pre |-> m1,
                thrown |-> r.thrown]>>]

Execute(m1, byte1, byte2) ==
  Advance(m1, Opcode(byte1, byte2), executeOpcode(m1, byte1, byte2))

\* this.executeOpcode(this.memory[this.pc], this.memory[this.pc + 1])
Fetch(m1) ==
  Execute(m1, MemoryAt(m1.memory, m1.pc), MemoryAt(m1.memory, Add(m1.pc, Num(1))))

\* The body of the if of run: both timers, one instruction, the PC advance.
Cycle(m) == Fetch(executeSoundTimer(executeDelayTimer(m)))

\* run(): a cycle when more than Interval ms have passed since the last one.
run(m, since) ==
  IF since > Interval THEN Cycle(m)
  ELSE [m |-> m, ticked |-> FALSE, cycled |-> FALSE, thrown |-> FALSE,
        entry |-> << >>]

\* hist keeps the two latest calls.
Shorten(h) == SubSeq(h, 1, IF Len(h) < 2 THEN Len(h) ELSE 2)

Remember(h, entry) == Shorten(entry \o h)

\* The caps that keep the state space finite.
InBounds(m) ==
  /\ Len(m.stack) < StackSize + MaxCalls
  /\ m.allocs < MaxClears
  /\ m.pc.tag = "number" => m.pc.num <= MaxPc * m.pc.den
  /\ m.pc.tag = "string" => Len(m.pc.str) <= Len(RowString) + MaxPc

AfterReset ==
  [call |-> "reset", program |-> << >>, ticked |-> FALSE, cycled |-> FALSE]

Init ==
  /\ jsip8 = reset(Blank)
  /\ elapsed = 0
  /\ scheduled = 0
  /\ last = AfterReset
  /\ hist = << >>

\* Time passes between handlers.
PassTime ==
  /\ elapsed < 2 * Interval
  /\ elapsed' = elapsed + Interval
  /\ UNCHANGED <<jsip8, scheduled, last, hist>>

\* reset()
Reset ==
  /\ jsip8' = reset(jsip8)
  /\ elapsed' = 0
  /\ last' = AfterReset
  /\ hist' = << >>
  /\ UNCHANGED scheduled

\* What a call of run leaves behind: r is its outcome, loops the callbacks
\* pending if it throws and if it returns (it ends by scheduling itself).
Ran(r, call, program, h, loopsIfThrown, loopsIfReturned) ==
  /\ jsip8' = r.m
  /\ elapsed' = IF r.cycled /\ ~r.thrown THEN 0 ELSE elapsed
  /\ scheduled' = IF r.thrown THEN loopsIfThrown ELSE loopsIfReturned
  /\ last' = [call |-> call, program |-> program, ticked |-> r.ticked,
              cycled |-> r.cycled]
  /\ hist' = Remember(h, r.entry)

\* load(program): this.memory = program; this.run().  As in start, load is
\* called on an object that reset has just set up.
Load(program) ==
  /\ last.call = "reset"
  /\ scheduled < MaxLoops
  /\ InBounds(jsip8)
  /\ Ran(run([jsip8 EXCEPT !.memory = Uint8Array(program)], elapsed),
         "load", program, << >>, scheduled, scheduled + 1)

\* run() as the animation-frame callback
Run ==
  /\ scheduled > 0
  /\ InBounds(jsip8)
  /\ Ran(run(jsip8, elapsed), "run", << >>, hist, scheduled - 1, scheduled)

Next ==
  \/ PassTime
  \/ Reset
  \/ \E program \in Programs : Load(program)
  \/ Run

Spec == Init /\ [][Next]_vars
(***************************************************************************)
(* The two timer methods on their own: any timer values, any order of      *)
(* calls.  Here hist keeps every call.                                     *)
(***************************************************************************)
MaxTimer == 3

MaxTicks == 5

TimerValues == (0..MaxTimer) \cup {255}

InitTimers ==
  /\ \E d \in TimerValues, t \in TimerValues :
       jsip8 = [reset(Blank) EXCEPT !.delayTimer = d, !.soundTimer = t]
  /\ elapsed = 0
  /\ scheduled = 0
  /\ last = AfterReset
  /\ hist = << >>

Ticked(call, m) ==
  /\ Len(hist) < MaxTicks
  /\ jsip8' = m
  /\ hist' = <<[call |-> call, opcode |-> 0, pre |-> jsip8, thrown |-> FALSE]>> \o hist
  /\ last' = [call |-> call, program |-> << >>, ticked |-> TRUE, cycled |-> FALSE]
  /\ UNCHANGED <<elapsed, scheduled>>

TickDelay == Ticked("executeDelayTimer", executeDelayTimer(jsip8))

TickSound == Ticked("executeSoundTimer", executeSoundTimer(jsip8))

NextTimers == TickDelay \/ TickSound

SpecTimers == InitTimers /\ [][NextTimers]_vars
(***************************************************************************)
(* One call of executeOpcode and the PC advance of run on their own, for    *)
(* the skip instructions 3xkk and 4xkk: any register, holding any of the    *)
(* kinds of value the instructions leave in registers.                      *)
(***************************************************************************)
RegisterValues == {Undef, NaN, Num(0), Num(5), Num(255), Num(300), Frac(5, 2)}

Immediates == {0, 5, 255}

InitSkip ==
  /\ \E x \in 0..15, a \in RegisterValues : jsip8 = SetV(reset(Blank), x, a)
  /\ elapsed = 0
  /\ scheduled = 0
  /\ last = AfterReset
  /\ hist = << >>

\* executeOpcode(byte1 + x, kk); this.pc += 2
StepSkip(byte1) ==
  /\ hist = << >>
  /\ \E x \in 0..15, kk \in Immediates :
       Ran(Execute(jsip8, Num(byte1 + x), Num(kk)), "executeOpcode", << >>, hist,
           scheduled, scheduled)

StepSe == StepSkip(48)

StepSne == StepSkip(64)

NextSkip == StepSe \/ StepSne

SpecSkip == InitSkip /\ [][NextSkip]_vars

(***************************************************************************)
(* Properties.                                                             *)
(***************************************************************************)
\* JavaScript truthiness: what a renderer testing a cell takes for a lit pixel.
IsOn(a) ==
  \/ a.tag = "number" /\ a.num # 0
  \/ a.tag = "object"
  \/ a.tag = "string" /\ a.str # << >>

\* The group (top nibble, 0..15) of the instruction of a hist entry.
Group(e) == e.opcode \div 4096

\* The return addresses a stack holds.
Held(stack) == Cardinality({k \in 1..Len(stack) : stack[k] # Undef})

\* The keys at which two screens differ.
ChangedKeys(a, b) ==
  {k \in DOMAIN a.over \cup DOMAIN b.over \cup
         {Num(c) : c \in 0..((IF a.filled > b.filled THEN a.filled ELSE b.filled) - 1)} :
     ScreenAt(a, k) # ScreenAt(b, k)}

\* Bit x (0 the leftmost) of sprite row y of the object m.
SpriteBit(m, y, x) ==
  (ToInt32(MemoryAt(m.memory, Num(m.i + y))) \div (2 ^ (7 - x))) % 2 = 1

\* The cell of pixel (px, py), by the addressing drawPixel uses.
Pixel(scr, px, py) == ScreenAt(scr, Num(px + py * SCREEN_WIDTH))

\* Whether the value a is an integer in 0..255.
IsByte(a) == IsInt(a) /\ a.num \in 0..255

\* Whether the latest call of executeOpcode was given 8xy<lastByte> with
\* bytes in V[x] and V[y].
AfterOp8(lastByte) ==
  /\ Len(hist) >= 1
  /\ Group(hist[1]) = 8
  /\ hist[1].opcode % 16 = lastByte
  /\ IsByte(hist[1].pre.v[NibbleX(hist[1].opcode)])
  /\ IsByte(hist[1].pre.v[NibbleY(hist[1].opcode)])

\* V[x] and V[y] before the latest call of executeOpcode, and x.
PreX == hist[1].pre.v[NibbleX(hist[1].opcode)].num

PreY == hist[1].pre.v[NibbleY(hist[1].opcode)].num

OpX == NibbleX(hist[1].opcode)

\* C1: a 2nnn cycle immediately followed by a 00EE cycle, begun with fewer
\* than 16 stacked return addresses, leaves PC at the address after the CALL
\* and the stack pointer where it was before the CALL.
CallThenRet ==
  /\ Len(hist) = 2
  /\ Group(hist[2]) = 2
  /\ hist[1].opcode = 238
  /\ hist[2].pre.sp < StackSize
  /\ Held(hist[2].pre.stack) < StackSize

CallRetRoundTrip ==
  CallThenRet =>
    /\ jsip8.pc = Add(hist[2].pre.pc, Num(2))
    /\ jsip8.sp = hist[2].pre.sp

\* C2: in every reachable state 0 <= sp <= 16 and the stack holds at most 16
\* return addresses; a 2nnn executed with 16 addresses held fails instead of
\* pushing.
StackCapacity ==
  /\ jsip8.sp \in 0..StackSize
  /\ Held(jsip8.stack) <= StackSize
  /\ \A k \in 1..Len(hist) :
       Group(hist[k]) = 2 /\ Held(hist[k].pre.stack) = StackSize => hist[k].thrown

\* C3: one cycle executing 6xkk sets V[x] = kk, advances PC by exactly 2 and
\* changes nothing else: no other register, not I, the stack, the stack
\* pointer, memory, the framebuffer.
AfterLdByte == Len(hist) >= 1 /\ Group(hist[1]) = 6

LoadImmediate ==
  AfterLdByte =>
    /\ ~hist[1].thrown
    /\ jsip8 = [hist[1].pre EXCEPT
                  !.v[NibbleX(hist[1].opcode)] = Num(hist[1].opcode % 256),
                  !.pc = Num(hist[1].pre.pc.num + 2)]

\* Witness of C3: the program 60 05 has been stepped once from PC = 0.
LoadImmediateDone ==
  /\ AfterLdByte
  /\ hist[1].opcode = 24581
  /\ hist[1].pre.pc = Num(0)
  /\ jsip8.v[0] = Num(5)
  /\ jsip8.pc = Num(2)

\* C4: after reset followed by load of a program, memory[0x200 + k] is
\* program byte k, memory is still 4096 bytes long, and PC is 0x200 (the
\* first instruction is fetched there).
FirstPc == IF last.cycled THEN hist[1].pre.pc ELSE jsip8.pc

LoadAtBase ==
  last.call = "load" =>
    /\ \A k \in 1..Len(last.program) :
         MemoryAt(jsip8.memory, Num(512 + k - 1)) = Num(last.program[k])
    /\ jsip8.memory.length = MemorySize
    /\ FirstPc = Num(512)

\* C5: after any calls of the two timer methods each timer equals
\* max(t - n, 0), t its value at first and n the calls of its own method (a
\* call takes exactly 1 from a timer above 0, leaves 0 at 0 and never touches
\* the other timer), and both timers are in 0..255.
Calls(call) == Cardinality({k \in 1..Len(hist) : hist[k].call = call})

First == IF hist = << >> THEN jsip8 ELSE hist[Len(hist)].pre

Floor0(n) == IF n > 0 THEN n ELSE 0

TimersSaturate ==
  /\ jsip8.delayTimer = Floor0(First.delayTimer - Calls("executeDelayTimer"))
  /\ jsip8.soundTimer = Floor0(First.soundTimer - Calls("executeSoundTimer"))
  /\ jsip8.delayTimer \in 0..255
  /\ jsip8.soundTimer \in 0..255

\* Witness of C5: the delay timer ticked 5 times from 3 is 0, and the sound
\* timer, never ticked, is what it was.
TimerTickedOut ==
  /\ First.delayTimer = 3
  /\ Calls("executeDelayTimer") = 5
  /\ jsip8.delayTimer = 0
  /\ jsip8.soundTimer = First.soundTimer
  /\ First.soundTimer = 2

\* C6: timer ticks and instruction execution are separate steps: when the
\* run callback is due to act, what it does is a tick of the timers without
\* an instruction, or an instruction without a tick of the timers.
TickOnly(r) == r.ticked /\ ~r.cycled

InstructionOnly(r) == r.cycled /\ ~r.ticked

TimersDecoupled ==
  scheduled > 0 /\ elapsed > Interval =>
    TickOnly(run(jsip8, elapsed)) \/ InstructionOnly(run(jsip8, elapsed))

\* What the code does instead: every call of run, load included, ticks the
\* timers exactly when it executes an instruction.
TimersCoupled == last.ticked = last.cycled

\* C7: a cycle that reaches Fx0A leaves PC unchanged (no key is ever
\* reported pressed: the interpreter has no key state).
KeyWaitHoldsPc ==
  Len(hist) >= 1 /\ Group(hist[1]) = 15 /\ hist[1].opcode % 256 = 10 =>
    jsip8.pc = hist[1].pre.pc

\* C8: the same Dxyn executed twice in a row restores every pixel, and the
\* second draw sets VF = 1 when the first turned at least one pixel on.
DrewTwice ==
  /\ Len(hist) = 2
  /\ Group(hist[1]) = 13
  /\ hist[1].opcode = hist[2].opcode
  /\ hist[1].pre.i = hist[2].pre.i
  /\ hist[1].pre.memory = hist[2].pre.memory
  /\ \A k \in 0..14 : hist[1].pre.v[k] = hist[2].pre.v[k]

DrawRoundTrip ==
  DrewTwice =>
    /\ \A k \in ChangedKeys(hist[2].pre.screen, jsip8.screen) :
         IsOn(ScreenAt(hist[2].pre.screen, k)) = IsOn(ScreenAt(jsip8.screen, k))
    /\ (\E k \in ChangedKeys(hist[2].pre.screen, hist[1].pre.screen) :
          /\ ~IsOn(ScreenAt(hist[2].pre.screen, k))
          /\ IsOn(ScreenAt(hist[1].pre.screen, k)))
       => jsip8.v[15] = Num(1)

\* C9: Dxyn toggles exactly the pixels ((V[x] + c) mod 64, (V[y] + r) mod 32)
\* of the set sprite bits (r, c), V[x] and V[y] being the registers the
\* opcode names, and changes no other pixel.
Drew ==
  /\ Len(hist) >= 1
  /\ Group(hist[1]) = 13
  /\ IsInt(hist[1].pre.v[NibbleX(hist[1].opcode)])
  /\ IsInt(hist[1].pre.v[NibbleY(hist[1].opcode)])

\* Whether an odd number of set sprite bits of the draw e fall on (px, py).
Toggled(e, px, py) ==
  Cardinality({rc \in (0..((e.opcode % 16) - 1)) \X (0..7) :
     /\ SpriteBit(e.pre, rc[1], rc[2])
     /\ (e.pre.v[NibbleX(e.opcode)].num + rc[2]) % 64 = px
     /\ (e.pre.v[NibbleY(e.opcode)].num + rc[1]) % 32 = py}) % 2 = 1

DrawWraps ==
  Drew =>
    \A px \in 0..63, py \in 0..31 :
      (IsOn(Pixel(jsip8.screen, px, py)) # IsOn(Pixel(hist[1].pre.screen, px, py)))
        <=> Toggled(hist[1], px, py)

\* C10: after 00E0 every one of the 2048 cells is off, and a following draw
\* of a single set bit changes exactly one cell.
OneBit(e) ==
  Cardinality({rc \in (0..((e.opcode % 16) - 1)) \X (0..7) :
     SpriteBit(e.pre, rc[1], rc[2])}) = 1

ClearedDisplay ==
  /\ (Len(hist) >= 1 /\ hist[1].opcode = 224 =>
        \A c \in 0..2047 : ~IsOn(ScreenAt(jsip8.screen, Num(c))))
  /\ (Len(hist) = 2 /\ hist[2].opcode = 224 /\ Group(hist[1]) = 13 /\ OneBit(hist[1]) =>
        Cardinality(ChangedKeys(hist[1].pre.screen, jsip8.screen)) = 1)

\* C11: after 8xy4 on the bytes a = V[x] and b = V[y], VF = 1 if a + b > 255
\* and 0 otherwise, and V[x] = (a + b) mod 256 when x is not F.
AddWithCarry ==
  AfterOp8(4) =>
    /\ jsip8.v[15] = Num(IF PreX + PreY > 255 THEN 1 ELSE 0)
    /\ OpX # 15 => jsip8.v[OpX] = Num((PreX + PreY) % 256)

\* C12: in every state reached from reset, every register V0..VF holds an
\* integer in 0..255.
RegisterRange == \A k \in 0..15 : IsByte(jsip8.v[k])

\* C13: after a cycle executing 1nnn PC is nnn exactly, and after a cycle
\* executing Bnnn PC is nnn + V[0].
JumpSetsPc ==
  Len(hist) >= 1 =>
    /\ Group(hist[1]) = 1 => jsip8.pc = Num(hist[1].opcode % 4096)
    /\ Group(hist[1]) = 11 /\ IsByte(hist[1].pre.v[0]) =>
         jsip8.pc = Num((hist[1].opcode % 4096) + hist[1].pre.v[0].num)

\* C14: after reset every one of the 4096 memory bytes is 0, every register
\* is 0, I is 0, the stack is empty with SP = 0, both timers are 0 and every
\* pixel is off; a second reset changes nothing.
ResetZeroes ==
  last.call = "reset" =>
    /\ \A k \in 0..(MemorySize - 1) : MemoryAt(jsip8.memory, Num(k)) = Num(0)
    /\ \A k \in 0..15 : jsip8.v[k] = Num(0)
    /\ jsip8.i = 0
    /\ Held(jsip8.stack) = 0
    /\ jsip8.sp = 0
    /\ jsip8.delayTimer = 0
    /\ jsip8.soundTimer = 0
    /\ \A px \in 0..63, py \in 0..31 : ~IsOn(Pixel(jsip8.screen, px, py))
    /\ reset(jsip8) = jsip8

\* C15: after 7xkk on the byte a = V[x], V[x] = (a + kk) mod 256, and VF is
\* left as it was (when x is not F).
AddImmediate ==
  Len(hist) >= 1 /\ Group(hist[1]) = 7 /\ IsByte(hist[1].pre.v[OpX]) =>
    /\ jsip8.v[OpX] = Num((PreX + (hist[1].opcode % 256)) % 256)
    /\ OpX # 15 => jsip8.v[15] = hist[1].pre.v[15]

\* C16: after 8xy5 on the bytes a = V[x] and b = V[y], VF = 1 if a > b else
\* 0 and V[x] = (a - b) mod 256; after 8xy7, VF = 1 if b > a else 0 and
\* V[x] = (b - a) mod 256; V[x] is meant when x is not F, and a and b are
\* the values held before the instruction, also when y is F.
SubtractNotBorrow ==
  /\ AfterOp8(5) =>
        /\ jsip8.v[15] = Num(IF PreX > PreY THEN 1 ELSE 0)
        /\ OpX # 15 => jsip8.v[OpX] = Num((256 + PreX - PreY) % 256)
  /\ AfterOp8(7) =>
        /\ jsip8.v[15] = Num(IF PreY > PreX THEN 1 ELSE 0)
        /\ OpX # 15 => jsip8.v[OpX] = Num((256 + PreY - PreX) % 256)

\* Whether the latest call of executeOpcode was given 8xy<lastByte> with x
\* not F and a byte in V[x].
AfterShift(lastByte) ==
  /\ Len(hist) >= 1
  /\ Group(hist[1]) = 8
  /\ hist[1].opcode % 16 = lastByte
  /\ OpX # 15
  /\ IsByte(hist[1].pre.v[OpX])

\* C17: after 8xy6 on the byte a = V[x], x not F, VF = a mod 2 and V[x] is
\* the integer floor(a / 2).
ShiftRight ==
  AfterShift(6) =>
    /\ jsip8.v[15] = Num(PreX % 2)
    /\ jsip8.v[OpX] = Num(PreX \div 2)

\* C18: after 8xyE on the byte a = V[x], x not F, VF = 1 if a >= 128 and 0
\* otherwise, and V[x] = (2 * a) mod 256.
ShiftLeft ==
  AfterShift(14) =>
    /\ jsip8.v[15] = Num(IF PreX >= 128 THEN 1 ELSE 0)
    /\ jsip8.v[OpX] = Num((2 * PreX) % 256)

\* Whether the latest cycle executed 3xkk (group 3) or 4xkk (group 4).
AfterSkipByte(group) == Len(hist) >= 1 /\ Group(hist[1]) = group

\* Whether V[x] of the object m holds the value kk.
HoldsByte(m, x, kk) == m.v[x] = Num(kk)

\* The object after a cycle that left everything but PC alone and advanced
\* PC by 4 (skip) or by 2.
Skipped(m, skip) == [m EXCEPT !.pc = Add(m.pc, Num(IF skip THEN 4 ELSE 2))]

\* Whether 3xkk, 4xkk executed from the current state skips (adds 2 to PC on
\* top of the 2 of the cycle).
SeByteSkips(x, kk) ==
  SeByte(jsip8, 12288 + 256 * x + kk).pc = Add(jsip8.pc, Num(2))

SneByteSkips(x, kk) ==
  SneByte(jsip8, 16384 + 256 * x + kk).pc = Add(jsip8.pc, Num(2))

\* C19: a cycle executing 3xkk advances PC by 4 if V[x] holds kk and by 2
\* otherwise, a cycle executing 4xkk by 4 if V[x] does not hold kk and by 2
\* otherwise, and neither changes anything else; from any state exactly one
\* of 3xkk and 4xkk skips.
SkipOnImmediate ==
  /\ AfterSkipByte(3) =>
        jsip8 = Skipped(hist[1].pre,
                        HoldsByte(hist[1].pre, OpX, hist[1].opcode % 256))
  /\ AfterSkipByte(4) =>
        jsip8 = Skipped(hist[1].pre,
                        ~HoldsByte(hist[1].pre, OpX, hist[1].opcode % 256))
  /\ IsNum(jsip8.pc) =>
        \A x \in 0..15, kk \in Immediates :
          SeByteSkips(x, kk) # SneByteSkips(x, kk)

\* Witness of C19: 3705 at PC = 0 with V7 = 5 has skipped to PC = 4.
SkipTaken ==
  /\ AfterSkipByte(3)
  /\ hist[1].opcode = 14085
  /\ hist[1].pre.v[7] = Num(5)
  /\ hist[1].pre.pc = Num(0)
  /\ jsip8.pc = Num(4)

\* Whether the latest cycle executed 5xy0 (group 5) or 9xy0 (group 9) with
\* bytes in V[x] and V[y].
AfterSkipReg(group) ==
  /\ Len(hist) >= 1
  /\ Group(hist[1]) = group
  /\ hist[1].opcode % 16 = 0
  /\ IsByte(hist[1].pre.v[NibbleX(hist[1].opcode)])
  /\ IsByte(hist[1].pre.v[NibbleY(hist[1].opcode)])

\* C20: a cycle executing 5xy0 advances PC by 4 if V[x] = V[y] and by 2
\* otherwise, a cycle executing 9xy0 by 4 if V[x] # V[y] and by 2 otherwise,
\* x and y being bits 8-11 and 4-7 of the opcode; both complete without
\* error.
SkipOnRegisters ==
  /\ AfterSkipReg(5) =>
        ~hist[1].thrown /\ jsip8 = Skipped(hist[1].pre, PreX = PreY)
  /\ AfterSkipReg(9) =>
        ~hist[1].thrown /\ jsip8 = Skipped(hist[1].pre, PreX # PreY)

\* C21: 00EE executed with no return address on the stack and SP = 0 fails:
\* it does not set PC from an unwritten stack slot and does not make the
\* stack pointer negative.
ReturnOnEmptyStack ==
  /\ Len(hist) >= 1
  /\ hist[1].opcode = 238
  /\ Held(hist[1].pre.stack) = 0
  /\ hist[1].pre.sp = 0
  => /\ hist[1].thrown
     /\ jsip8.pc = hist[1].pre.pc
     /\ jsip8.sp >= 0

\* Whether the latest cycle executed Dxyn on the screen reset makes (no 00E0
\* since).
AfterDrawOnReset ==
  /\ Len(hist) >= 1
  /\ Group(hist[1]) = 13
  /\ hist[1].pre.screen.fill = Num(0)

\* Whether a pixel that was on before the latest cycle is off after it.
Erased ==
  \E k \in ChangedKeys(hist[1].pre.screen, jsip8.screen) :
    IsOn(ScreenAt(hist[1].pre.screen, k)) /\ ~IsOn(ScreenAt(jsip8.screen, k))

\* C22: after Dxyn VF is exactly 0 or 1, and it is 1 when the draw turned a
\* set pixel off, whichever pixel of the sprite that was.
CollisionAggregated ==
  AfterDrawOnReset =>
    /\ jsip8.v[15] \in {Num(0), Num(1)}
    /\ Erased => jsip8.v[15] = Num(1)

\* Whether opcode is a word of group 0 or 8 that matches no case of the
\* inner switch: 0nnn other than 00E0 and 00EE, 8xy8 .. 8xyD, 8xyF.
Unrecognized(opcode) ==
  \/ opcode \div 4096 = 0 /\ opcode \notin {224, 238}
  \/ opcode \div 4096 = 8 /\ opcode % 16 \in (8..13) \cup {15}

AfterUnrecognized == Len(hist) >= 1 /\ Unrecognized(hist[1].opcode)

\* C23: a cycle executing an unrecognized word of group 0 or 8 completes,
\* advances PC by 2, changes nothing else and leaves the interpreter
\* running.
UnrecognizedIsNoOp ==
  AfterUnrecognized =>
    /\ ~hist[1].thrown
    /\ jsip8 = [hist[1].pre EXCEPT !.pc = Add(hist[1].pre.pc, Num(2))]
    /\ scheduled > 0

\* Witness of C23: 8008 at PC = 0 has been stepped over.
UnrecognizedStepped ==
  /\ AfterUnrecognized
  /\ hist[1].opcode = 32776
  /\ hist[1].pre.pc = Num(0)
  /\ jsip8.pc = Num(2)
  /\ scheduled > 0

\* Whether the call e of executeOpcode was given an instruction fetched at
\* addresses PC and PC + 1 inside 0..4095.
FetchInRange(e) == IsInt(e.pre.pc) /\ e.pre.pc.num \in 0..(MemorySize - 2)

\* Whether the sprite rows a Dxyn call e reads, I .. I + n - 1, are inside
\* 0..4095.
SpriteInRange(e) ==
  Group(e) = 13 /\ e.opcode % 16 > 0 =>
    e.pre.i >= 0 /\ e.pre.i + (e.opcode % 16) - 1 < MemorySize

\* The failures left to an instruction: a call on a full stack, a return on
\* an empty one, a memory access out of range.
MayFail(e) ==
  \/ Group(e) = 2 /\ Held(e.pre.stack) >= StackSize
  \/ e.opcode = 238 /\ Held(e.pre.stack) = 0
  \/ ~FetchInRange(e)
  \/ ~SpriteInRange(e)

\* C24: executeOpcode completes without an error for every instruction word,
\* 9xy0 and Cxkk included, but for stack overflow, stack underflow and
\* memory accesses out of range.
ExecuteTotal ==
  Len(hist) >= 1 /\ ~MayFail(hist[1]) => ~hist[1].thrown

\* C25: every instruction that is executed was fetched at addresses inside
\* 0..4095, and a Dxyn that completes read its sprite rows inside 0..4095:
\* an access out of range stops the interpreter instead.
MemoryRangeChecked ==
  Len(hist) >= 1 =>
    /\ FetchInRange(hist[1])
    /\ SpriteInRange(hist[1]) \/ hist[1].thrown
====
